---- MODULE Spec2Model ----
(***************************************************************************)
(* Model of download() in src/mod.ts: a resumable HTTP download that pipes *)
(* a fetch response body into an output TransformStream and, when the pipe *)
(* fails, re-issues the request with a Range / If-Match header.            *)
(*                                                                         *)
(* Header values are sequences of one-character strings, so that the       *)
(* parsers (indexOf, substring, Number) and the template literals are      *)
(* computed the way the code computes them.                                *)
(***************************************************************************)
EXTENDS Integers, Sequences, FiniteSets, TLC

\* ---------------------------------------------------------------- bounds
\* Length of the resource held by the server, in bytes.
ResLen == 5
\* Largest chunk a response body hands to the pipe at once.
MaxChunk == 2
\* Largest number of resumed requests followed in one session.
MaxRetries == 2

\* ------------------------------------------------------- JavaScript values
\* Number(...) of a string that is no number.
NaN == -1
\* The unbounded byte budget.
Infinity == -2
\* A header that is absent (Headers.get returns null).
Null == <<"null">>

Digits == <<"0", "1", "2", "3", "4", "5", "6", "7", "8", "9">>

IsDigit(c) == \E d \in 1..10 : Digits[d] = c

DigitVal(c) == (CHOOSE d \in 1..10 : Digits[d] = c) - 1

Max(a, b) == IF a >= b THEN a ELSE b

Min(a, b) == IF a <= b THEN a ELSE b

\* String.prototype.indexOf for a one-character needle: 0-based, -1 if absent.
IndexOf(s, c) ==
  IF \E i \in 1..Len(s) : s[i] = c
  THEN (CHOOSE i \in 1..Len(s) : s[i] = c /\ \A j \in 1..(i - 1) : s[j] # c) - 1
  ELSE -1

\* String.prototype.substring(a, b): both ends clamped to 0..length, swapped
\* when a > b.
Substring(s, a, b) ==
  LET ca == Min(Max(a, 0), Len(s))
      cb == Min(Max(b, 0), Len(s))
  IN  SubSeq(s, Min(ca, cb) + 1, Max(ca, cb))

StartsWith(s, p) == Len(s) >= Len(p) /\ SubSeq(s, 1, Len(p)) = p

RECURSIVE Trim(_)
\* Number() ignores white space around the numeral.
Trim(s) ==
  IF s = <<>> THEN s
  ELSE IF Head(s) = " " THEN Trim(Tail(s))
  ELSE IF s[Len(s)] = " " THEN Trim(SubSeq(s, 1, Len(s) - 1))
  ELSE s

RECURSIVE DigitsValue(_)
DigitsValue(s) ==
  IF s = <<>> THEN 0
  ELSE DigitsValue(SubSeq(s, 1, Len(s) - 1)) * 10 + DigitVal(s[Len(s)])

\* Number(string): the empty string is 0, a decimal numeral its value,
\* anything else NaN.
Number(s) ==
  LET t == Trim(s)
  IN  IF t = <<>> THEN 0
      ELSE IF \A i \in 1..Len(t) : IsDigit(t[i]) THEN DigitsValue(t)
      ELSE NaN

RECURSIVE NatStr(_)
NatStr(n) ==
  IF n < 10 THEN <<Digits[n + 1]>>
  ELSE NatStr(n \div 10) \o <<Digits[(n % 10) + 1]>>

\* `${n}` of a template literal.
ToStr(n) ==
  IF n = NaN THEN <<"N", "a", "N">>
  ELSE IF n = Infinity THEN <<"I", "n", "f", "i", "n", "i", "t", "y">>
  ELSE NatStr(n)

\* a - b on numbers that may be NaN or Infinity.
Minus(a, b) ==
  IF a = NaN \/ b = NaN THEN NaN
  ELSE IF a = Infinity THEN (IF b = Infinity THEN NaN ELSE Infinity)
  ELSE a - b

\* ----------------------------------------------------------- the parsers
BytesEq == <<"b", "y", "t", "e", "s", "=">>

BytesSp == <<"b", "y", "t", "e", "s", " ">>

NoRange == [present |-> FALSE, start |-> NaN, end |-> NaN]

\* RangeEnd without the cut at the first comma.
RangeEndToEndOfHeader(hdr) ==
  Number(Substring(hdr, IndexOf(hdr, "-") + 1, Len(hdr)))

\* The end of the caller's Range: the text between the first "-" and the
\* first "," (or the end of the header).
RangeEnd(hdr) ==
  LET dashIndex == IndexOf(hdr, "-")
      comma == Max(IndexOf(hdr, ","), 0)
      commaIndex == IF comma = 0 THEN Len(hdr) ELSE comma
  IN  Number(Substring(hdr, dashIndex + 1, commaIndex))

\* const range = function () {...}() over the caller's Range header.
RangeParser(hdr) ==
  IF hdr = Null THEN NoRange
  ELSE [present |-> TRUE,
        start |-> Number(Substring(hdr, 0, IndexOf(hdr, "-"))),
        end |-> RangeEnd(hdr)]

NoContentRange ==
  [present |-> FALSE, threw |-> FALSE, start |-> NaN, end |-> NaN, total |-> NaN]

\* const contentRange = function () {...}() over the response's
\* Content-Range header; threw marks the TypeError of an unsupported unit.
ContentRangeParser(cr) ==
  IF cr = Null THEN NoContentRange
  ELSE IF ~StartsWith(cr, BytesSp)
  THEN [NoContentRange EXCEPT !.present = TRUE, !.threw = TRUE]
  ELSE LET dashIndex == IndexOf(cr, "-")
           slashIndex == IndexOf(cr, "/")
           totalSize == Substring(cr, slashIndex, Len(cr))
       IN  [present |-> TRUE, threw |-> FALSE,
            start |-> Number(Substring(cr, 6, dashIndex)),
            end |-> Number(Substring(cr, dashIndex + 1, slashIndex)),
            total |-> IF totalSize = <<"*">> THEN Infinity ELSE Number(cr)]

\* InitialSize that forgets the offset the first response starts at.
InitialSizeZero(cr) == 0

\* let currentSize = contentRange?.start ?? 0
InitialSize(cr) == IF cr.present THEN cr.start ELSE 0

\* InitialBytesLeft were the budget taken from Content-Length alone.
BytesLeftFromContentLength(cr, contentLength) ==
  IF contentLength = Null THEN Infinity ELSE Number(contentLength)

\* let bytesLeft = contentRange == null
\*   ? Number(content-length) || Infinity : contentRange.end - contentRange.start
InitialBytesLeft(cr, contentLength) ==
  IF ~cr.present
  THEN LET n == IF contentLength = Null THEN 0 ELSE Number(contentLength)
       IN  IF n = 0 \/ n = NaN THEN Infinity ELSE n
  ELSE Minus(cr.end, cr.start)

\* chunk.subarray(0, bytesLeft)
Subarray(chunk, end) ==
  IF end = Infinity THEN chunk
  ELSE IF end = NaN THEN <<>>
  ELSE IF end < 0 THEN SubSeq(chunk, 1, Max(Len(chunk) + end, 0))
  ELSE SubSeq(chunk, 1, Min(end, Len(chunk)))

\* range: `bytes=${currentSize}-${range?.end ?? ""}`
RetryRange(size, r) ==
  BytesEq \o ToStr(size) \o <<"-">> \o (IF r.present THEN ToStr(r.end) ELSE <<>>)

\* "if-match": etag ?? ""
RetryIfMatch(tag) == IF tag = Null THEN <<>> ELSE tag

\* init.headers is a HeadersInit: a plain object ("object"), a Headers
\* object ("Headers") or a list of name/value pairs ("pairs"); entries holds
\* its name/value pairs in order, the names as the caller spelled them.
EmptyObject == [kind |-> "object", entries |-> <<>>]

\* Header names are case-insensitive: Headers lower-cases them.
LowerCase(name) ==
  CASE name = "Range" -> "range"
    [] name = "Accept" -> "accept"
    [] name = "If-Match" -> "if-match"
    [] OTHER -> name

\* The characters of a name (an array element printed as a header value).
NameChars(name) ==
  CASE name = "range" -> <<"r", "a", "n", "g", "e">>
    [] name = "Range" -> <<"R", "a", "n", "g", "e">>
    [] name = "accept" -> <<"a", "c", "c", "e", "p", "t">>
    [] name = "if-match" -> <<"i", "f", "-", "m", "a", "t", "c", "h">>
    [] OTHER -> <<>>

RECURSIVE Combined(_)
\* The values of one header name joined by ", ", as Headers combines them.
Combined(values) ==
  IF Len(values) = 1 THEN values[1]
  ELSE values[1] \o <<",", " ">> \o Combined(Tail(values))

\* The values a sequence of entries holds for a header name, in order.
ValuesOf(entries, name) ==
  LET hits == SelectSeq(entries, LAMBDA e : LowerCase(e.key) = name)
  IN  [i \in 1..Len(hits) |-> hits[i].value]

\* new Headers(init.headers).get(name); also what fetch sends for the name.
HeadersGet(h, name) ==
  IF ValuesOf(h.entries, name) = <<>> THEN Null
  ELSE Combined(ValuesOf(h.entries, name))

\* { ...init.headers }: the own enumerable properties. A plain object gives
\* its entries, a Headers object none, an array its indices, each holding a
\* [name, value] pair (printed "name,value" when used as a header value).
Spread(h) ==
  CASE h.kind = "object" -> h.entries
    [] h.kind = "Headers" -> <<>>
    [] OTHER -> [i \in 1..Len(h.entries) |->
                   [key |-> Digits[i],
                    value |-> NameChars(h.entries[i].key) \o <<",">>
                                \o h.entries[i].value]]

\* An object literal's property: a later key of the same spelling replaces
\* the value, a new key is added at the end.
SetEntry(entries, key, value) ==
  IF \E i \in 1..Len(entries) : entries[i].key = key
  THEN [i \in 1..Len(entries) |->
          IF entries[i].key = key THEN [key |-> key, value |-> value]
          ELSE entries[i]]
  ELSE Append(entries, [key |-> key, value |-> value])

\* init.headers = { ...init.headers, range: ..., "if-match": ... }
RetryHeaders(h, size, r, tag) ==
  [kind |-> "object",
   entries |-> SetEntry(SetEntry(Spread(h), "range", RetryRange(size, r)),
                        "if-match", RetryIfMatch(tag))]

\* The value init.headers holds under the very key range (Null: none).
RangeEntry(h) ==
  IF h.kind = "object" /\ \E i \in 1..Len(h.entries) : h.entries[i].key = "range"
  THEN (CHOOSE e \in {h.entries[i] : i \in 1..Len(h.entries)} : e.key = "range").value
  ELSE Null

\* The request fetch(url, init) sends: its Range, If-Match and Accept
\* headers, the names of its other headers, and the range entry written.
Request(h) ==
  [range |-> HeadersGet(h, "range"),
   ifMatch |-> HeadersGet(h, "if-match"),
   accept |-> HeadersGet(h, "accept"),
   others |-> {LowerCase(h.entries[i].key) : i \in 1..Len(h.entries)}
                \ {"range", "if-match", "accept"},
   written |-> RangeEntry(h)]

\* AcceptedStatus with one more case label.
AcceptedStatusAnd404 == {200, 201, 206, 404}

\* switch (response.status) { case 200: case 201: case 206: break; ... }
AcceptedStatus == {200, 201, 206}

\* if (response.status !== 206) of the retry loop.
ResumeAccepted(status) == status = 206

StatusText(status) ==
  CASE status = 200 -> "OK"
    [] status = 201 -> "Created"
    [] status = 206 -> "Partial Content"
    [] status = 404 -> "Not Found"
    [] status = 412 -> "Precondition Failed"
    [] status = 416 -> "Range Not Satisfiable"
    [] OTHER -> ""

\* `Invalid Status Code (${response.status}): ${response.statusText}`
InvalidStatusMessage(status, text) ==
  [template |-> "Invalid Status Code (${status}): ${statusText}",
   status |-> ToStr(status), statusText |-> text]

\* `Status Code (${response.status}) wasn't 206`
ResumeRejectedMessage(status) ==
  [template |-> "Status Code (${status}) wasn't 206",
   status |-> ToStr(status), statusText |-> ""]

\* The reason a failed response body carries: the fetch was aborted through
\* init.signal, or the connection broke.
StreamError(aborted) ==
  [template |-> IF aborted THEN "AbortError" ELSE "NetworkError",
   status |-> <<>>, statusText |-> ""]

\* The reason of the consumer's readable.cancel().
CancelReason == [template |-> "cancel", status |-> <<>>, statusText |-> ""]

NoError == [template |-> "", status |-> <<>>, statusText |-> ""]

\* pipeTo(writable, { preventClose: true, preventCancel: true })
PreventClose == TRUE

PreventCancel == TRUE

\* PreventAbort were the pipe told to leave writable alone on a body error.
PreventAbortSet == TRUE

PreventAbort == FALSE

\* ------------------------------------------------------------ the server
\* The byte the resource holds at an offset.
Byte(offset) == (offset * 7 + 3) % 256

Resource == [i \in 1..ResLen |-> Byte(i - 1)]

\* The bytes of the resource at offsets s..e.
Slice(s, e) == SubSeq(Resource, s + 1, e + 1)

\* The first byte range of a Range header as an HTTP server reads it:
\* bytes=<first>-<last>, <last> empty for an open range.
ServerRange(hdr) ==
  LET eq == IndexOf(hdr, "=")
      dash == IndexOf(hdr, "-")
      comma == IndexOf(hdr, ",")
      stop == IF comma < 0 THEN Len(hdr) ELSE comma
      first == Substring(hdr, eq + 1, dash)
      last == Substring(hdr, dash + 1, stop)
      s == IF first = <<>> THEN NaN ELSE Number(first)
      e == IF last = <<>> THEN ResLen - 1 ELSE Number(last)
  IN  [ok |-> /\ StartsWith(hdr, BytesEq) /\ s # NaN /\ e # NaN
              /\ s < ResLen /\ s <= e,
       start |-> s, end |-> Min(e, ResLen - 1)]

\* Content-Range: <unit> <s>-<e>/<ResLen>
ContentRangeHeader(unit, s, e) ==
  unit \o <<" ">> \o ToStr(s) \o <<"-">> \o ToStr(e) \o <<"/">> \o ToStr(ResLen)

\* The responses a server may give to a request with the given Range header.
\* kind: "full" (no Content-Range), "partial", "unit" (a Content-Range in a
\* unit other than bytes), "error".
Responses(hdr) ==
  LET sr == IF hdr = Null THEN [ok |-> FALSE, start |-> 0, end |-> 0]
            ELSE ServerRange(hdr)
      tags == {Null, <<"v", "1">>}
      full == {[status |-> 200, etag |-> t, contentRange |-> Null,
                contentLength |-> cl, body |-> Resource] :
                  t \in tags, cl \in {Null, ToStr(ResLen)}}
                \cup {[status |-> 201, etag |-> Null, contentRange |-> Null,
                       contentLength |-> ToStr(ResLen), body |-> Resource]}
      partial == IF ~sr.ok THEN {}
                 ELSE {[status |-> 206, etag |-> t,
                        contentRange |-> ContentRangeHeader(u, sr.start, sr.end),
                        contentLength |-> ToStr(sr.end - sr.start + 1),
                        body |-> Slice(sr.start, sr.end)] :
                          t \in tags,
                          u \in {<<"b", "y", "t", "e", "s">>,
                                 <<"i", "t", "e", "m", "s">>}}
      error == {[status |-> st, etag |-> Null, contentRange |-> Null,
                 contentLength |-> Null, body |-> <<>>] :
                  st \in (IF sr.ok THEN {404, 412} ELSE {404, 416})}
  IN  full \cup partial \cup error

\* The Range headers a caller passes in init.headers.
CallerRanges ==
  { Null,
    BytesEq \o <<"0", "-", "3">>,
    BytesEq \o <<"1", "-">>,
    BytesEq \o <<"2", "-", "1", "2">>,
    BytesEq \o <<"1", "-", "2", ",", "4", "-", "4">> }

\* The value of an Accept header the caller passes with every request.
AcceptAll == <<"*", "/", "*">>

\* init.headers as a caller builds it: an Accept header, then the Range
\* header (if any) under the given spelling.
CallerInit(kind, key, value) ==
  [kind |-> kind,
   entries |-> <<[key |-> "accept", value |-> AcceptAll]>>
                 \o (IF value = Null THEN <<>>
                     ELSE <<[key |-> key, value |-> value]>>)]

\* The init.headers values callers pass: nothing at all, a plain object with
\* a lower-case range key, one with a capitalised Range key, a Headers
\* object, a list of pairs.
CallerHeaders ==
  {EmptyObject}
    \cup {CallerInit("object", "range", v) : v \in CallerRanges \ {Null}}
    \cup {CallerInit("object", "Range", BytesEq \o <<"0", "-", "3">>),
          CallerInit("Headers", "range", BytesEq \o <<"0", "-", "3">>),
          CallerInit("pairs", "range", BytesEq \o <<"2", "-", "1", "2">>)}

\* ------------------------------------------------------------- the state
VARIABLES
  pc,            \* where download() / its background loop stands
  resolved,      \* the promise download() returned: pending, fulfilled, rejected
  headers,       \* the Headers object handed to the caller
  first,         \* the first response as the server sent it: status, headers
  callerRange,   \* the Range header the caller passed (Null: none)
  hasSignal,     \* whether the caller passed init.signal
  signalAborted, \* init.signal.aborted
  initHeaders,   \* init.headers
  etag,          \* const etag
  range,         \* const range
  currentSize,   \* let currentSize
  bytesLeft,     \* let bytesLeft
  status,        \* response.status of the latest response
  bodyState,     \* response.body: none, open, closed, errored, cancelled
  bodyRest,      \* the bytes response.body has still to produce
  truncated,     \* the latest body ended before its declared length
  outState,      \* the output TransformStream: writable, closed, errored
  outError,      \* its stored error
  pending,       \* the chunk written to writable and not yet read (at most one)
  delivered,     \* the bytes the consumer has read from readable
  outCalls,      \* the abort/close calls made on writable, in order
  requests,      \* the requests issued: the headers of each, in order
  pumps          \* the pipes started and not yet settled

vars ==
  <<pc, resolved, headers, first, callerRange, hasSignal, signalAborted, initHeaders,
    etag, range, currentSize, bytesLeft, status, bodyState, bodyRest, truncated,
    outState, outError, pending, delivered, outCalls, requests, pumps>>

NoHeaders == [etag |-> Null, contentRange |-> Null, contentLength |-> Null]

Init ==
  /\ pc = "start"
  /\ resolved = "pending"
  /\ headers = NoHeaders
  /\ first = [status |-> 0, headers |-> NoHeaders]
  /\ initHeaders \in CallerHeaders
  /\ callerRange = HeadersGet(initHeaders, "range")
  /\ hasSignal \in BOOLEAN
  /\ signalAborted = FALSE
  /\ etag = Null
  /\ range = NoRange
  /\ currentSize = 0
  /\ bytesLeft = 0
  /\ status = 0
  /\ bodyState = "none"
  /\ bodyRest = <<>>
  /\ truncated = FALSE
  /\ outState = "writable"
  /\ outError = NoError
  /\ pending = <<>>
  /\ delivered = <<>>
  /\ outCalls = <<>>
  /\ requests = <<>>
  /\ pumps = 0

\* writable.abort(reason): a stream already errored keeps its stored error.
WritableAbort(by, reason) ==
  /\ outCalls' = Append(outCalls, [by |-> by, op |-> "abort", reason |-> reason])
  /\ IF outState = "writable"
     THEN outState' = "errored" /\ outError' = reason /\ pending' = <<>>
     ELSE UNCHANGED <<outState, outError, pending>>

\* ReturnAfterAccept were the background loop awaited before the return.
ReturnAfterLoop == "pending"

\* What download() resolves with once the first response is accepted: the
\* background loop is started and not awaited.
ReturnAfterAccept == "fulfilled"

\* AwaitPipe were the pipe's promise not awaited.
PipeNotAwaited == "delay"

\* await response.body?.pipeThrough(...).pipeTo(...): once a pipe is started
\* the loop stands at the await until the pipe's promise settles.
AwaitPipe == "piping"

\* await fetch(url, init) of the first request throws (no response at all).
FirstFetchFails ==
  /\ pc = "start"
  /\ pc' = "failed"
  /\ resolved' = "rejected"
  /\ requests' = Append(requests, Request(initHeaders))
  /\ UNCHANGED <<headers, first, callerRange, hasSignal, signalAborted, initHeaders,
                 etag, range, currentSize, bytesLeft, status, bodyState,
                 bodyRest, truncated, outState, outError, pending, delivered,
                 outCalls, pumps>>

\* The first response arrives with a status outside 200, 201, 206.
FirstResponseRejected(r) ==
  /\ pc = "start"
  /\ ~signalAborted
  /\ r.status \notin AcceptedStatus
  /\ requests' = Append(requests, Request(initHeaders))
  /\ status' = r.status
  /\ headers' = [etag |-> r.etag, contentRange |-> r.contentRange,
                 contentLength |-> r.contentLength]
  /\ first' = [status |-> r.status,
               headers |-> [etag |-> r.etag, contentRange |-> r.contentRange,
                            contentLength |-> r.contentLength]]
  /\ bodyState' = "cancelled"
  /\ bodyRest' = <<>>
  /\ WritableAbort("controller", InvalidStatusMessage(r.status, StatusText(r.status)))
  /\ resolved' = "fulfilled"
  /\ pc' = "rejected"
  /\ UNCHANGED <<callerRange, hasSignal, signalAborted, initHeaders, etag,
                 range, currentSize, bytesLeft, truncated, delivered, pumps>>

\* The first response arrives with an accepted status: the headers are parsed,
\* the counters set, the pipe started and download() returns.
FirstResponseAccepted(r) ==
  /\ pc = "start"
  /\ ~signalAborted
  /\ r.status \in AcceptedStatus
  /\ requests' = Append(requests, Request(initHeaders))
  /\ status' = r.status
  /\ headers' = [etag |-> r.etag, contentRange |-> r.contentRange,
                 contentLength |-> r.contentLength]
  /\ first' = [status |-> r.status,
               headers |-> [etag |-> r.etag, contentRange |-> r.contentRange,
                            contentLength |-> r.contentLength]]
  /\ etag' = r.etag
  /\ range' = RangeParser(HeadersGet(initHeaders, "range"))
  /\ bodyState' = "open"
  /\ bodyRest' = r.body
  /\ LET cr == ContentRangeParser(r.contentRange)
     IN  IF cr.threw
         THEN /\ resolved' = "rejected"
              /\ pc' = "threw"
              /\ UNCHANGED <<currentSize, bytesLeft, pumps>>
         ELSE /\ currentSize' = InitialSize(cr)
              /\ bytesLeft' = InitialBytesLeft(cr, r.contentLength)
              /\ resolved' = ReturnAfterAccept
              /\ pumps' = pumps + 1
              /\ pc' = AwaitPipe
  /\ UNCHANGED <<callerRange, hasSignal, signalAborted, initHeaders, truncated,
                 outState, outError, pending, delivered, outCalls>>

\* transform(chunk, controller): the pipe takes the next chunk of the body
\* when writable is ready for one, cuts it to the budget, counts it and
\* writes it to writable.
Transform(n) ==
  /\ pumps > 0
  /\ bodyState = "open"
  /\ outState = "writable"
  /\ pending = <<>>
  /\ n \in 1..Min(MaxChunk, Len(bodyRest))
  /\ LET chunk == Subarray(SubSeq(bodyRest, 1, n), bytesLeft)
     IN  /\ currentSize' = currentSize + Len(chunk)
         /\ bytesLeft' = Minus(bytesLeft, Len(chunk))
         /\ pending' = <<chunk>>
  /\ bodyRest' = SubSeq(bodyRest, n + 1, Len(bodyRest))
  /\ UNCHANGED <<pc, resolved, headers, first, callerRange, hasSignal, signalAborted,
                 initHeaders, etag, range, status, bodyState, truncated,
                 outState, outError, delivered, outCalls, requests, pumps>>

\* The consumer reads the chunk waiting in the output stream.
ConsumerRead ==
  /\ outState = "writable"
  /\ pending # <<>>
  /\ delivered' = delivered \o pending[1]
  /\ pending' = <<>>
  /\ UNCHANGED <<pc, resolved, headers, first, callerRange, hasSignal, signalAborted,
                 initHeaders, etag, range, currentSize, bytesLeft, status,
                 bodyState, bodyRest, truncated, outState, outError, outCalls,
                 requests, pumps>>

\* The consumer cancels readable: the writable side becomes errored and the
\* chunk waiting in it is dropped.
ConsumerCancel ==
  /\ resolved = "fulfilled"
  /\ outState = "writable"
  /\ outState' = "errored"
  /\ outError' = CancelReason
  /\ pending' = <<>>
  /\ UNCHANGED <<pc, resolved, headers, first, callerRange, hasSignal, signalAborted,
                 initHeaders, etag, range, currentSize, bytesLeft, status,
                 bodyState, bodyRest, truncated, delivered, outCalls, requests, pumps>>

\* The caller aborts init.signal: a response body being received errors.
SignalAbort ==
  /\ hasSignal
  /\ ~signalAborted
  /\ signalAborted' = TRUE
  /\ bodyState' = IF bodyState = "open" THEN "errored" ELSE bodyState
  /\ UNCHANGED <<pc, resolved, headers, first, callerRange, hasSignal, initHeaders,
                 etag, range, currentSize, bytesLeft, status, bodyRest,
                 truncated, outState, outError, pending, delivered, outCalls,
                 requests, pumps>>

\* The connection breaks while the body is being received.
BodyError ==
  /\ pc = "piping"
  /\ bodyState = "open"
  /\ bodyState' = "errored"
  /\ UNCHANGED <<pc, resolved, headers, first, callerRange, hasSignal, signalAborted,
                 initHeaders, etag, range, currentSize, bytesLeft, status,
                 bodyRest, truncated, outState, outError, pending, delivered,
                 outCalls, requests, pumps>>

\* The body ends: after its last byte, or (truncated) before it.
BodyEnd ==
  /\ pc = "piping"
  /\ bodyState = "open"
  /\ bodyState' = "closed"
  /\ truncated' = (bodyRest # <<>>)
  /\ bodyRest' = <<>>
  /\ UNCHANGED <<pc, resolved, headers, first, callerRange, hasSignal, signalAborted,
                 initHeaders, etag, range, currentSize, bytesLeft, status,
                 outState, outError, pending, delivered, outCalls, requests, pumps>>

\* catch { if (init.signal?.aborted) return; }
Catch == IF hasSignal /\ signalAborted THEN "cancelled" ELSE "delay"

\* The body has errored and every chunk read from it has been written: the
\* pipe aborts writable with the body's error unless preventAbort is set, and
\* its promise rejects.
PipeSourceErrored ==
  /\ pc = "piping"
  /\ bodyState = "errored"
  /\ outState = "writable"
  /\ pending = <<>>
  /\ IF PreventAbort
     THEN UNCHANGED <<outState, outError, pending, outCalls>>
     ELSE WritableAbort("pipe", StreamError(signalAborted))
  /\ pc' = Catch
  /\ pumps' = pumps - 1
  /\ UNCHANGED <<resolved, headers, first, callerRange, hasSignal, signalAborted,
                 initHeaders, etag, range, currentSize, bytesLeft, status,
                 bodyState, bodyRest, truncated, delivered, requests>>

\* writable is errored (the consumer cancelled, or an earlier pipe aborted
\* it): the pipe's promise rejects; the body is cancelled unless
\* preventCancel is set.
PipeDestErrored ==
  /\ pc = "piping"
  /\ outState = "errored"
  /\ bodyState' = IF PreventCancel \/ bodyState # "open" THEN bodyState
                  ELSE "cancelled"
  /\ pc' = Catch
  /\ pumps' = pumps - 1
  /\ UNCHANGED <<resolved, headers, first, callerRange, hasSignal, signalAborted,
                 initHeaders, etag, range, currentSize, bytesLeft, status,
                 bodyRest, truncated, outState, outError, pending, delivered,
                 outCalls, requests>>

\* The body has ended and every chunk has been written: the pipe's promise
\* resolves (closing writable itself unless preventClose is set), then
\* await writable.close(); return.
PipeDone ==
  /\ pc = "piping"
  /\ bodyState = "closed"
  /\ outState = "writable"
  /\ pending = <<>>
  /\ outState' = "closed"
  /\ IF PreventClose
     THEN /\ outCalls' = Append(outCalls, [by |-> "controller", op |-> "close",
                                           reason |-> NoError])
          /\ pc' = "closed"
     ELSE /\ outCalls' = outCalls \o
                 << [by |-> "pipe", op |-> "close", reason |-> NoError],
                    [by |-> "controller", op |-> "close", reason |-> NoError] >>
          /\ pc' = Catch
  /\ pumps' = pumps - 1
  /\ UNCHANGED <<resolved, headers, first, callerRange, hasSignal, signalAborted,
                 initHeaders, etag, range, currentSize, bytesLeft, status,
                 bodyState, bodyRest, truncated, outError, pending, delivered,
                 requests>>

\* The log of requests keeps the first request and the first MaxRetries
\* resumed ones; the loop itself has no cap.
Logged(log, request) ==
  IF Len(log) <= MaxRetries THEN Append(log, request) ELSE log

\* await delay(retryDelay); init.headers = {...}; response = await fetch(...)
\* is issued. A fetch with an aborted signal throws without a request.
DelayElapsed ==
  /\ pc = "delay"
  /\ initHeaders' = RetryHeaders(initHeaders, currentSize, range, etag)
  /\ IF signalAborted
     THEN pc' = "crashed" /\ UNCHANGED requests
     ELSE pc' = "fetch" /\ requests' = Logged(requests, Request(initHeaders'))
  /\ UNCHANGED <<resolved, headers, first, callerRange, hasSignal, signalAborted,
                 etag, range, currentSize, bytesLeft, status, bodyState,
                 bodyRest, truncated, outState, outError, pending, delivered,
                 outCalls, pumps>>

\* The resumed fetch throws: the background loop ends with an unhandled
\* rejection.
RetryFetchFails ==
  /\ pc = "fetch"
  /\ pc' = "crashed"
  /\ UNCHANGED <<resolved, headers, first, callerRange, hasSignal, signalAborted,
                 initHeaders, etag, range, currentSize, bytesLeft, status,
                 bodyState, bodyRest, truncated, outState, outError, pending,
                 delivered, outCalls, requests, pumps>>

\* HeadersAfterRetry were the returned Headers refreshed from each response.
HeadersFromLatestResponse(h, r) ==
  [etag |-> r.etag, contentRange |-> r.contentRange,
   contentLength |-> r.contentLength]

\* const headers = new Headers(response.headers) is a copy made once, of the
\* first response; response = await fetch(url, init) of a retry leaves it.
HeadersAfterRetry(h, r) == h

\* The response to a resumed request arrives.
RetryResponse(r) ==
  /\ pc = "fetch"
  /\ ~signalAborted
  /\ status' = r.status
  /\ headers' = HeadersAfterRetry(headers, r)
  /\ IF ResumeAccepted(r.status)
     THEN /\ bodyState' = "open"
          /\ bodyRest' = r.body
          /\ truncated' = FALSE
          /\ pumps' = pumps + 1
          /\ pc' = AwaitPipe
          /\ UNCHANGED <<outState, outError, pending, outCalls>>
     ELSE /\ bodyState' = "cancelled"
          /\ bodyRest' = <<>>
          /\ WritableAbort("controller", ResumeRejectedMessage(r.status))
          /\ pc' = "aborted"
          /\ UNCHANGED <<truncated, pumps>>
  /\ UNCHANGED <<resolved, first, callerRange, hasSignal, signalAborted,
                 initHeaders, etag, range, currentSize, bytesLeft, delivered,
                 requests>>

Next ==
  \/ FirstFetchFails
  \/ \E r \in Responses(HeadersGet(initHeaders, "range")) : FirstResponseRejected(r)
  \/ \E r \in Responses(HeadersGet(initHeaders, "range")) : FirstResponseAccepted(r)
  \/ \E n \in 1..MaxChunk : Transform(n)
  \/ ConsumerRead
  \/ ConsumerCancel
  \/ SignalAbort
  \/ BodyError
  \/ BodyEnd
  \/ PipeSourceErrored
  \/ PipeDestErrored
  \/ PipeDone
  \/ DelayElapsed
  \/ RetryFetchFails
  \/ \E r \in Responses(HeadersGet(initHeaders, "range")) : RetryResponse(r)

Spec == Init /\ [][Next]_vars

\* ------------------------------------------------- sessions that go on
\* The sessions of a caller that passes no signal, against a server that
\* accepts the first request and answers every resumed request it can
\* satisfy with 206, over a connection that breaks finitely often and
\* otherwise delivers each body whole.
FairInit == Init /\ ~hasSignal

\* A resumed request for which the server has no 206 to give.
Unanswerable ==
  /\ pc = "fetch"
  /\ \A r \in Responses(HeadersGet(initHeaders, "range")) : r.status # 206

FirstAccepted ==
  \E r \in Responses(HeadersGet(initHeaders, "range")) :
    ~ContentRangeParser(r.contentRange).threw /\ FirstResponseAccepted(r)

Pump == \E n \in 1..MaxChunk : Transform(n)

Interruption == Len(requests) <= MaxRetries /\ BodyError

WholeBodyEnd == bodyRest = <<>> /\ BodyEnd

Resumed206 ==
  \E r \in Responses(HeadersGet(initHeaders, "range")) :
    r.status = 206 /\ RetryResponse(r)

FairNext ==
  \/ FirstAccepted
  \/ Pump
  \/ ConsumerRead
  \/ ConsumerCancel
  \/ Interruption
  \/ WholeBodyEnd
  \/ PipeSourceErrored
  \/ PipeDestErrored
  \/ PipeDone
  \/ DelayElapsed
  \/ Resumed206

\* The server answers: no request waits for ever for a response the server
\* can give (the first one, and every resumed one it can answer with 206).
ServerAnswers ==
  /\ []<>(pc # "start")
  /\ []<>(pc # "fetch" \/ Unanswerable)

\* Every step of the program that stays possible is eventually taken (the
\* event loop runs every continuation that is ready), the body of a response
\* keeps coming, and the consumer keeps reading; the interruptions and the
\* consumer's cancel may or may not happen.
Fairness ==
  /\ ServerAnswers
  /\ WF_vars(Pump)
  /\ WF_vars(ConsumerRead)
  /\ WF_vars(WholeBodyEnd)
  /\ WF_vars(PipeSourceErrored)
  /\ WF_vars(PipeDestErrored)
  /\ WF_vars(PipeDone)
  /\ WF_vars(DelayElapsed)

FairSpec == FairInit /\ [][FairNext]_vars /\ Fairness

\* ============================================================ the claims
\* The text of the upper bound of the first range of a Range header.
UpperBoundText(hdr) ==
  LET dash == IndexOf(hdr, "-")
      comma == IndexOf(hdr, ",")
  IN  SubSeq(hdr, dash + 2, IF comma < 0 THEN Len(hdr) ELSE comma)

\* A header's text ends with the given value (its last or only value).
EndsWith(hdr, value) ==
  /\ Len(hdr) >= Len(value)
  /\ SubSeq(hdr, Len(hdr) - Len(value) + 1, Len(hdr)) = value

\* The first response has arrived (the first fetch did not throw).
Responded == pc \notin {"start", "failed"}

\* The start and end the first response's Content-Range declares.
DeclaredStart == ContentRangeParser(first.headers.contentRange).start

DeclaredEnd == ContentRangeParser(first.headers.contentRange).end

\* The first pipe failed because the response body failed, the consumer not
\* having cancelled: the pipe's abort is the first call made on writable.
BodyFailedFirst == outCalls # <<>> /\ outCalls[1].by = "pipe"

\* C1: after an initial response whose status is not 200, 201 or 206,
\* download has resolved with that response's headers, the output channel is
\* aborted with a message holding the numeric status and the status text, and
\* the session has issued no request but the first.
C1_RejectedInitialStatus ==
  (Responded /\ first.status \notin {200, 201, 206}) =>
    /\ resolved = "fulfilled"
    /\ headers = first.headers
    /\ outState = "errored"
    /\ outError.status = ToStr(first.status)
    /\ outError.statusText = StatusText(first.status)
    /\ Len(requests) = 1
    /\ pc = "rejected"

C1_Witness ==
  /\ pc = "rejected"
  /\ first.status = 404
  /\ outError = InvalidStatusMessage(404, "Not Found")
  /\ resolved = "fulfilled"

\* C2: in a session that ended with a clean close, the server having sent the
\* whole body, the bytes delivered are exactly the bytes of the resource at
\* the offsets the first response declared (s..e of its Content-Range, the
\* whole resource without one).
C2_RoundTrip ==
  (pc = "closed" /\ ~truncated) =>
    delivered = IF first.headers.contentRange = Null THEN Resource
                ELSE Slice(DeclaredStart, DeclaredEnd)

C4_RetryKeepsRequestedEnd ==
  (callerRange # Null /\ UpperBoundText(callerRange) # <<>>) =>
    \A i \in 2..Len(requests) :
      /\ requests[i].written # Null
      /\ UpperBoundText(requests[i].written) # <<>>
      /\ Number(UpperBoundText(requests[i].written))
           = Number(UpperBoundText(callerRange))
      /\ UpperBoundText(requests[i].range) # <<>>
      /\ Number(UpperBoundText(requests[i].range))
           = Number(UpperBoundText(callerRange))

C4_Witness ==
  /\ Len(requests) = 3
  /\ callerRange = BytesEq \o <<"1", "-", "2", ",", "4", "-", "4">>
  /\ UpperBoundText(requests[2].written) = <<"2">>
  /\ UpperBoundText(requests[3].written) = <<"2">>
  /\ requests[3].range = requests[3].written

\* C5: when the caller's Range has an empty end (bytes=a-), every retry's
\* Range has an empty upper bound, as when the caller gave no Range at all.
C5_OpenEndedStaysOpen ==
  (callerRange # Null /\ UpperBoundText(callerRange) = <<>>) =>
    \A i \in 2..Len(requests) :
      requests[i].range = BytesEq \o ToStr(currentSize) \o <<"-">>

\* C6: when a resumed request is answered with a status other than 206 (the
\* consumer not having cancelled), the output channel is aborted with the
\* message naming that status.
C6_ResumeRejectedAborts ==
  (pc = "aborted" /\ outError # CancelReason) =>
    /\ outState = "errored"
    /\ outError = ResumeRejectedMessage(status)

\* C7: when the signal is aborted at the first stream error, the session ends
\* with no retry request and writable has received neither close nor abort.
C7_CancelledIsSilent ==
  (pc = "cancelled" /\ Len(requests) = 1) => outCalls = <<>>

\* C8: after a failed attempt with no cancellation (neither the signal nor
\* the consumer), the output channel is still open and writable while the
\* session waits to retry.
C8_InterruptionKeepsChannelOpen ==
  (pc \in {"delay", "fetch"} /\ outError # CancelReason) => outState = "writable"

\* C9: once the first response has arrived, no terminal failure rejects the
\* promise download returned: each has aborted the output channel.
C9_FailuresSurfaceOnChannel ==
  (Responded /\ pc \in {"rejected", "threw", "aborted"}) =>
    /\ resolved = "fulfilled"
    /\ outState = "errored"

C11_HeadersAreFirstResponse ==
  (Responded /\ first.status \in {200, 201, 206}) => headers = first.headers

\* A retry was answered 206 with a Content-Range the first response (a 200)
\* did not carry.
C11_Witness ==
  /\ resolved = "fulfilled"
  /\ first.status = 200
  /\ Len(requests) >= 2
  /\ pc = "piping"
  /\ status = 206
  /\ headers = first.headers
  /\ headers.contentRange = Null


\* The loop is running: a pipe is awaited, or a retry is being prepared.
Active == pc \in {"piping", "delay", "fetch"}

\* C12 as stated: over a session at most one close or abort is made on the
\* output channel's writable side (a clean close, one fatal abort, or none),
\* counting an abort made by the pipe itself.
C12_FinalizedAtMostOnce == Len(outCalls) <= 1

\* The end boundary the first response declared: the end of its
\* Content-Range, or its Content-Length when it has no Content-Range.
DeclaredBoundary ==
  IF first.headers.contentRange # Null THEN DeclaredEnd
  ELSE Number(first.headers.contentLength)

\* C13: while the session is active with a bounded budget, currentSize +
\* bytesLeft is the end boundary the first response declared, whatever chunks
\* have been forwarded and whatever retries have been answered.
C13_CountersSumToBoundary ==
  (Active /\ bytesLeft # Infinity) => currentSize + bytesLeft = DeclaredBoundary

\* A retry is being piped, bytes having been forwarded before and budget
\* being left, under a Content-Range that starts past 0.
C13_Witness ==
  /\ pc = "piping"
  /\ Len(requests) >= 2
  /\ first.headers.contentRange # Null
  /\ DeclaredStart > 0
  /\ currentSize > DeclaredStart
  /\ bytesLeft # Infinity
  /\ bytesLeft > 0
  /\ currentSize + bytesLeft = DeclaredEnd


\* C14 as stated: when a retry request has just been built, currentSize is
\* the first response's start offset plus the number of bytes whose write
\* into the output channel completed (the bytes that reached its readable
\* side), no counted chunk having been lost on the way.
C14_ResumeAtBytesWritten ==
  pc = "fetch" =>
    currentSize = InitialSize(ContentRangeParser(first.headers.contentRange))
                    + Len(delivered)

\* The session has ended: the loop has returned or thrown, or never started.
Terminal ==
  pc \in {"failed", "rejected", "threw", "closed", "cancelled", "aborted", "crashed"}

\* C15: at most one pipe is running at any instant, the loop stands at its
\* await while it runs (no request is prepared or sent meanwhile), and none
\* runs once the session has ended.
C15_OnePumpAtATime ==
  /\ pumps \in {0, 1}
  /\ pumps = 1 <=> pc = "piping"
  /\ Terminal => pumps = 0

\* A second pipe is running, the first having forwarded bytes and failed and
\* a retry having been answered 206.
C15_Witness ==
  /\ pumps = 1
  /\ pc = "piping"
  /\ Len(requests) >= 2
  /\ status = 206
  /\ bodyState = "open"
  /\ delivered # <<>>


\* C16 as stated: every retry request carries the other headers of the first
\* request unchanged, exactly one Range value (the resumed one the rebuild
\* wrote, whatever way the caller supplied its own), and an If-Match that is
\* the first response's ETag (empty when it had none).
C16_RetryChangesOnlyRangeAndIfMatch ==
  \A i \in 2..Len(requests) :
    /\ requests[i].accept = requests[1].accept
    /\ requests[i].others = requests[1].others
    /\ requests[i].range = requests[i].written
    /\ requests[i].ifMatch = RetryIfMatch(first.headers.etag)


\* C17 as stated: when the session has closed the output channel under a
\* bounded budget, the budget is used up (bytesLeft is 0): no clean close
\* happens while declared bytes are missing.
C17_CleanCloseIsComplete ==
  (pc = "closed" /\ bytesLeft # Infinity) => bytesLeft = 0

\* C19: when the background loop has stopped otherwise than by its return on
\* an aborted signal (it closed the channel, aborted it, or died on a fetch
\* that threw), the output channel is closed or errored, never left open.
C19_StoppedLoopLeavesNoOpenChannel ==
  pc \in {"closed", "aborted", "crashed"} => outState \in {"closed", "errored"}

\* A retry's fetch threw, no signal aborted and no consumer cancel: the
\* channel carries the error the pipe aborted it with.
C19_Witness ==
  /\ pc = "crashed"
  /\ ~signalAborted
  /\ Len(requests) >= 2
  /\ outState = "errored"
  /\ outError = StreamError(FALSE)
  /\ Len(outCalls) = 1
  /\ outCalls[1].by = "pipe"


\* C18 as stated: once the consumer has cancelled readable (no signal having
\* been passed), the session stops: it reaches a terminal state, or at least
\* a request the server cannot answer with 206, instead of retrying for ever.
C18_ConsumerCancelStopsSession ==
  (outError = CancelReason) ~> (Terminal \/ Unanswerable)

\* C20 as stated: with finitely many interruptions, no signal, every resumed
\* request answered 206 and a consumer that keeps reading and does not
\* cancel, the session eventually closes the output channel.
C20_EventuallyCloses ==
  <>(pc = "closed" \/ outError = CancelReason \/ Unanswerable)

====
